---- MODULE Spec2Model ----
(***************************************************************************)
(* Model of pydantic_settings.source_mappers.SourceMapper (the Key Index   *)
(* and the Field Resolver) and of source_providers.env_source_provider.    *)
(*                                                                         *)
(* Python dicts are objects of a heap: a dict is a sequence of [k, v]      *)
(* items in insertion order, and a value that is a dict is a reference     *)
(* into the heap, so that two places holding the same dict object see each *)
(* other's writes, as in Python.  Strings used as keys and lookup names    *)
(* are sequences of one-character strings (so that str.lower() and the     *)
(* f-string concatenation can be computed); string values are TLA+         *)
(* strings.                                                                *)
(***************************************************************************)
EXTENDS Integers, Sequences, FiniteSets, TLC

VARIABLES
    heap,               \* the dict objects: heap[r] is the item sequence of dict r
    source,             \* self.source: reference of the source mapping
    source0,            \* history: deep value of the source at construction
    case_sensitive,     \* self.case_sensitive
    nesting_delimiter,  \* self.nesting_delimiter (None or a string)
    fields,             \* the field descriptors handed to __call__
    keymap_cache,       \* lru_cache of the keymap property
    calls,              \* history: outcomes of the __call__s made so far
    lookup,             \* the last direct get_field_value call and its outcome
    environ,            \* os.environ
    dotenv_files,       \* path -> parsed content of the dotenv file, or NotAFile
    dotenv_installed,   \* whether the dotenv package can be imported
    env_file_paths,     \* the env_file_paths argument
    env_result          \* what env_source_provider returned

vars == <<heap, source, source0, case_sensitive, nesting_delimiter, fields,
          keymap_cache, calls, lookup,
          environ, dotenv_files, dotenv_installed, env_file_paths, env_result>>

mapper_vars == <<heap, source, source0, case_sensitive, nesting_delimiter, fields,
                 keymap_cache, calls, lookup>>

env_vars == <<environ, dotenv_files, dotenv_installed, env_file_paths, env_result>>

(***************************************************************************)
(* Bounds of the model.                                                    *)
(***************************************************************************)
MaxSrc == 2        \* number of items of the source mapping
MaxCalls == 2      \* number of __call__s on one SourceMapper
MaxFiles == 2      \* number of dotenv paths handed to env_source_provider

(***************************************************************************)
(* Python values.  Every value is a record of the same shape.              *)
(***************************************************************************)
None == [t |-> "none", s |-> "", n |-> 0, r |-> 0]
Str(x) == [t |-> "str", s |-> x, n |-> 0, r |-> 0]
Num(x) == [t |-> "int", s |-> "", n |-> x, r |-> 0]
Ref(x) == [t |-> "ref", s |-> "", n |-> 0, r |-> x]
\* the class _Empty, used as the "no value" sentinel
Empty == [t |-> "empty", s |-> "", n |-> 0, r |-> 0]

IsDict(v) == v.t = "ref"

(***************************************************************************)
(* str.lower() on a string given as a sequence of characters.              *)
(***************************************************************************)
UpperCase == <<"A","B","C","D","E","F","G","H","I","J","K","L","M",
               "N","O","P","Q","R","S","T","U","V","W","X","Y","Z">>
LowerCase == <<"a","b","c","d","e","f","g","h","i","j","k","l","m",
               "n","o","p","q","r","s","t","u","v","w","x","y","z">>

LowerChar(c) ==
    IF \E i \in 1..Len(UpperCase) : UpperCase[i] = c
    THEN LowerCase[CHOOSE i \in 1..Len(UpperCase) : UpperCase[i] = c]
    ELSE c

Lower(key) == [i \in 1..Len(key) |-> LowerChar(key[i])]

(***************************************************************************)
(* dict operations on an item sequence.                                    *)
(***************************************************************************)
DictKeys(d) == {d[i].k : i \in 1..Len(d)}

DictHas(d, key) == \E i \in 1..Len(d) : d[i].k = key

\* d[key], for a key of d
DictAt(d, key) == d[CHOOSE i \in 1..Len(d) : d[i].k = key].v

\* d.get(key)
DictGet(d, key) == IF DictHas(d, key) THEN DictAt(d, key) ELSE None

\* d[key] = value
DictSet(d, key, value) ==
    IF DictHas(d, key)
    THEN [i \in 1..Len(d) |-> IF d[i].k = key THEN [k |-> key, v |-> value] ELSE d[i]]
    ELSE Append(d, [k |-> key, v |-> value])

\* d.update(other), the mutant keeping the value already in d
RECURSIVE DictUpdateKeepFirst(_, _)
DictUpdateKeepFirst(d, other) ==
    IF other = <<>> THEN d
    ELSE DictUpdateKeepFirst(
            IF DictHas(d, Head(other).k) THEN d
            ELSE DictSet(d, Head(other).k, Head(other).v),
            Tail(other))

\* d.update(other)
RECURSIVE DictUpdate(_, _)
DictUpdate(d, other) ==
    IF other = <<>> THEN d
    ELSE DictUpdate(DictSet(d, Head(other).k, Head(other).v), Tail(other))

(***************************************************************************)
(* Deep value of a Python value: dicts by content, whatever the object     *)
(* and whatever the order of the items.                                    *)
(***************************************************************************)
RECURSIVE Deep(_, _)
Deep(h, v) ==
    IF IsDict(v)
    THEN [t |-> "dict", d |-> [key \in DictKeys(h[v.r]) |-> Deep(h, DictAt(h[v.r], key))]]
    ELSE v

(***************************************************************************)
(* Allocation of a literal value in the heap.  A literal is a scalar value *)
(* or [t |-> "lit", items |-> <<[k, v], ...>>] with literal values.        *)
(***************************************************************************)
Lit(items) == [t |-> "lit", items |-> items]

RECURSIVE Alloc(_, _)
RECURSIVE AllocItems(_, _, _)
\* the heap after building the value, and the value: [h, v]
Alloc(h, lit) ==
    IF lit.t = "lit"
    THEN LET a == AllocItems(h, lit.items, <<>>)
         IN [h |-> Append(a.h, a.d), v |-> Ref(Len(a.h) + 1)]
    ELSE [h |-> h, v |-> lit]
AllocItems(h, items, d) ==
    IF items = <<>> THEN [h |-> h, d |-> d]
    ELSE LET a == Alloc(h, Head(items).v)
         IN AllocItems(a.h, Tail(items), Append(d, [k |-> Head(items).k, v |-> a.v]))

(***************************************************************************)
(* Names used by the scenarios.                                            *)
(***************************************************************************)
kA == <<"A">>
ka == <<"a">>
kB == <<"B">>
kb == <<"b">>
kh == <<"h">>
ki == <<"i">>
ky == <<"y">>
kx == <<"x">>
Delim == <<"_">>
aVal == <<"v","a","l">>
aCfg == <<"c","f","g">>
aUni == <<"u","n","i">>
aDb == <<"d","b">>
aHost == <<"h","o","s","t">>
aInner == <<"i","n","n","e","r">>
aTag == <<"t","a","g">>

TextAbc == "abc"
TextXyz == "xyz"
TextSeven == "7"
TextX1 == "{\"x\": 1}"
TextY2 == "{\"y\": 2}"

(***************************************************************************)
(* json.loads on the texts of the scenarios: the decoded literal, or a     *)
(* ValueError for a text that is not JSON.                                 *)
(***************************************************************************)
json_loads(text) ==
    CASE text = TextSeven -> [ok |-> TRUE, lit |-> Num(7)]
      [] text = TextX1 -> [ok |-> TRUE, lit |-> Lit(<<[k |-> kx, v |-> Num(1)]>>)]
      [] text = TextY2 -> [ok |-> TRUE, lit |-> Lit(<<[k |-> ky, v |-> Num(2)]>>)]
      [] OTHER -> [ok |-> FALSE, lit |-> None]

NoError == [type |-> "none", key |-> <<>>]
Error(type, key) == [type |-> type, key |-> key]

\* default_complex_parser(field_name, raw_value) in heap h: [h, v, err]
default_complex_parser(h, raw_value) ==
    IF raw_value.t # "str"
    THEN [h |-> h, v |-> raw_value, err |-> Error("TypeError", <<>>)]
    ELSE LET decoded == json_loads(raw_value.s)
         IN IF decoded.ok
            THEN LET a == Alloc(h, decoded.lit)
                 IN [h |-> a.h, v |-> a.v, err |-> NoError]
            ELSE [h |-> h, v |-> raw_value, err |-> Error("ValueError", <<>>)]

(***************************************************************************)
(* Field descriptors (pydantic ModelField, as far as the mapper reads it). *)
(*   env_names    field.field_info.extra.get('env_names', [])              *)
(*   config_env   get_field_info(field.name).get('env')                    *)
(*   extra_env    field.field_info.extra.get('env')                        *)
(*   complex      field.is_complex()                                       *)
(*   union        is_union(get_origin(field.type_))                        *)
(*   sub_complex  f.is_complex() of each of field.sub_fields               *)
(*   model        lenient_issubclass(field.type_, BaseModel)               *)
(*   model_fields field.type_.__fields__.values()                          *)
(***************************************************************************)
Field(name, alias, env_names, extra_env, complex, union, sub_complex, model, model_fields) ==
    [name |-> name, alias |-> alias, env_names |-> env_names,
     config_env |-> None, extra_env |-> extra_env,
     complex |-> complex, union |-> union, sub_complex |-> sub_complex,
     model |-> model, model_fields |-> model_fields]

\* val: str
fVal == Field("val", aVal, <<kA, kb>>, None, FALSE, FALSE, <<>>, FALSE, <<>>)
\* cfg: Dict[str, Any]
fCfg == Field("cfg", aCfg, <<kA, kb>>, None, TRUE, FALSE, <<>>, FALSE, <<>>)
\* uni: Union[int, Dict[str, Any]]
fUni == Field("uni", aUni, <<kA, kb>>, None, FALSE, TRUE, <<FALSE, TRUE>>, FALSE, <<>>)
\* class Inner(BaseModel): y: str
fY == Field("y", ky, <<ky>>, None, FALSE, FALSE, <<>>, FALSE, <<>>)
\* class Db(BaseModel): host: str; inner: Inner; tag: str = Field(env='a')
fHost == Field("host", aHost, <<kh>>, None, FALSE, FALSE, <<>>, FALSE, <<>>)
fInner == Field("inner", aInner, <<ki>>, None, TRUE, FALSE, <<>>, TRUE, <<fY>>)
fTag == Field("tag", aTag, <<ka>>, Str("a"), FALSE, FALSE, <<>>, FALSE, <<>>)
\* db: Db
fDb == Field("db", aDb, <<kA, kb>>, None, TRUE, FALSE, <<>>, TRUE, <<fHost, fInner, fTag>>)

FieldLists == {<<fVal>>, <<fCfg>>, <<fUni>>, <<fDb>>, <<fVal, fCfg>>, <<fUni, fDb>>}

(***************************************************************************)
(* The items a source may hold: a key and the literal of its value.        *)
(***************************************************************************)
Item(key, lit) == [k |-> key, v |-> lit]

SourceItems ==
    { Item(kA, Str(TextAbc)),
      Item(kA, None),
      Item(kA, Lit(<<Item(aHost, Str("p"))>>)),
      Item(ka, Str(TextXyz)),
      Item(kb, Str(TextSeven)),
      Item(kb, Str(TextXyz)),
      Item(kb, Lit(<<Item(aHost, Str("q")), Item(aInner, Lit(<<Item(kx, Num(1))>>))>>)),
      Item(kb, Lit(<<>>)),
      Item(kB, Str(TextX1)),
      Item(kb \o Delim \o kh, Str("lh")),
      Item(kA \o Delim \o kh, Str("ah")),
      Item(kb \o Delim \o ki \o Delim \o ky, Str("y1")),
      Item(kb \o Delim \o ki, Str(TextY2)) }

\* the sequences of at most n items with distinct keys
RECURSIVE SourceLits(_)
SourceLits(n) ==
    IF n = 0 THEN {<<>>}
    ELSE LET shorter == SourceLits(n - 1)
         IN shorter \cup
            { Append(s, it) : s \in {q \in shorter : Len(q) = n - 1},
                              it \in SourceItems } 

DistinctKeys(s) == \A i, j \in 1..Len(s) : i # j => s[i].k # s[j].k

Sources == {s \in SourceLits(MaxSrc) : DistinctKeys(s)}

(***************************************************************************)
(* SourceMapper.  self is [source, case_sensitive, nesting_delimiter]; the *)
(* complex_parser is default_complex_parser.  A computation carries        *)
(* st = [h, km, err]: the heap, the keymap cache and the exception raised. *)
(***************************************************************************)
NoDelimiter == [set |-> FALSE, s |-> <<>>]
Delimiter(s) == [set |-> TRUE, s |-> s]

NoKeymap == [cached |-> FALSE, map |-> <<>>]

\* str(source_key) if self.case_sensitive else str(source_key).lower()
NormalizeKey(source_key, cs) == IF cs THEN source_key ELSE Lower(source_key)

\* the mutant in which a later colliding key replaces the entry
KeydbAddLastWins(keydb, key, source_key) ==
    [k \in (DOMAIN keydb) \cup {key} |-> IF k = key THEN source_key ELSE keydb[k]]

\* if key in keydb: continue; keydb[key] = source_key
KeydbAdd(keydb, key, source_key) ==
    IF key \in DOMAIN keydb THEN keydb
    ELSE [k \in (DOMAIN keydb) \cup {key} |-> IF k = key THEN source_key ELSE keydb[k]]

\* the body of the keymap property: the loop over self.source.keys()
RECURSIVE BuildKeydb(_, _, _)
BuildKeydb(items, cs, keydb) ==
    IF items = <<>> THEN keydb
    ELSE BuildKeydb(Tail(items), cs,
                    KeydbAdd(keydb, NormalizeKey(Head(items).k, cs), Head(items).k))

\* self.keymap: the cached keydb, built on the first access
keymap(self, st) ==
    IF st.km.cached THEN st
    ELSE [st EXCEPT !.km = [cached |-> TRUE,
                            map |-> BuildKeydb(st.h[self.source], self.case_sensitive, <<>>)]]

\* the mutant that normalizes the name before the lookup
KeymapGetNormalized(self, map, key) ==
    LET n == NormalizeKey(key, self.case_sensitive)
    IN IF n \in DOMAIN map THEN [found |-> TRUE, k |-> map[n]]
       ELSE [found |-> FALSE, k |-> <<>>]

\* self.keymap.get(key)
KeymapGet(self, map, key) ==
    IF key \in DOMAIN map THEN [found |-> TRUE, k |-> map[key]]
    ELSE [found |-> FALSE, k |-> <<>>]

\* not source_key
NotSourceKey(source_key) == ~source_key.found \/ source_key.k = <<>>

\* the mutant that takes a null value as found
ValueIsNoneNever(value) == FALSE

\* value is None
ValueIsNone(value) == value = None

\* truth value of None or of a string
Truthy(v) == ~(v = None \/ (v.t = "str" /\ v.s = ""))

\* the mutant that tolerates no parse failure
field_is_complex_strict(field) ==
    IF field.complex \/ (field.union /\ \E i \in 1..Len(field.sub_complex) : field.sub_complex[i])
    THEN [is_complex |-> TRUE, allow_parse_failure |-> FALSE]
    ELSE [is_complex |-> FALSE, allow_parse_failure |-> FALSE]

field_is_complex(field) ==
    IF field.complex
    THEN [is_complex |-> TRUE, allow_parse_failure |-> FALSE]
    ELSE IF field.union /\ field.sub_complex # <<>>
            /\ \E i \in 1..Len(field.sub_complex) : field.sub_complex[i]
         THEN [is_complex |-> TRUE, allow_parse_failure |-> TRUE]
         ELSE [is_complex |-> FALSE, allow_parse_failure |-> FALSE]

has_env(field) ==
    LET env == IF Truthy(field.config_env) THEN field.config_env ELSE field.extra_env
    IN env # None

\* the mutant that takes the value out of the source
SourcePop(self, h, source_key) ==
    [h |-> [h EXCEPT ![self.source] =
                SelectSeq(@, LAMBDA item : item.k # source_key)],
     v |-> DictGet(h[self.source], source_key)]

\* self.source.get(source_key): the heap after the read, and the value
SourceGet(self, h, source_key) ==
    [h |-> h, v |-> DictGet(h[self.source], source_key)]

Raise(st, err) == [h |-> st.h, km |-> st.km, err |-> err, v |-> None]

\* the loop of get_field_value from the i-th name on; dict_result is the
\* reference of the accumulator.  Returns [h, km, err, v].
RECURSIVE gfv_loop(_, _, _, _, _, _)
RECURSIVE gfv_key(_, _, _, _, _, _)
RECURSIVE gfv_source_key(_, _, _, _, _, _, _)
RECURSIVE gfv_got(_, _, _, _, _, _, _)
RECURSIVE gfv_value(_, _, _, _, _, _, _, _)
RECURSIVE gfv_parsed(_, _, _, _, _, _, _, _)
gfv_loop(self, st, search_radar, i, field, dict_result) ==
    IF i > Len(search_radar)
    THEN [h |-> st.h, km |-> st.km, err |-> NoError,
          v |-> IF st.h[dict_result] = <<>> THEN Empty ELSE Ref(dict_result)]
    ELSE gfv_key(self, keymap(self, st), search_radar, i, field, dict_result)

\* line 115, st being the state after the read of self.keymap
gfv_key(self, st, search_radar, i, field, dict_result) ==
    gfv_source_key(self, st, search_radar, i, field, dict_result,
                   KeymapGet(self, st.km.map, search_radar[i]))

\* lines 116-119
gfv_source_key(self, st, search_radar, i, field, dict_result, source_key) ==
    IF NotSourceKey(source_key)
    THEN gfv_loop(self, st, search_radar, i + 1, field, dict_result)
    ELSE gfv_got(self, st, search_radar, i, field, dict_result,
                 SourceGet(self, st.h, source_key.k))

\* lines 120-124, got being what self.source.get gave: [h, v]
gfv_got(self, st, search_radar, i, field, dict_result, got) ==
    IF ValueIsNone(got.v)
    THEN gfv_loop(self, [st EXCEPT !.h = got.h], search_radar, i + 1, field, dict_result)
    ELSE gfv_value(self, [st EXCEPT !.h = got.h], search_radar, i, field, dict_result,
                   field_is_complex(field), got.v)

\* lines 125-129, cls being what field_is_complex gave
gfv_value(self, st, search_radar, i, field, dict_result, cls, value) ==
    gfv_parsed(self, st, search_radar, i, field, dict_result, cls,
               IF cls.is_complex /\ ~IsDict(value)
               THEN default_complex_parser(st.h, value)
               ELSE [h |-> st.h, v |-> value, err |-> NoError])

\* lines 130-140, p being the value after the parser: [h, v, err]
gfv_parsed(self, st, search_radar, i, field, dict_result, cls, p) ==
    IF p.err.type = "ValueError" /\ ~cls.allow_parse_failure
    THEN Raise(st, Error("SettingsError", search_radar[i]))
    ELSE IF p.err.type = "TypeError"
    THEN Raise(st, p.err)
    ELSE IF IsDict(p.v)
    THEN gfv_loop(self,
                  [st EXCEPT !.h = [p.h EXCEPT ![dict_result] =
                                       DictUpdate(@, p.h[p.v.r])]],
                  search_radar, i + 1, field, dict_result)
    ELSE [h |-> p.h, km |-> st.km, err |-> NoError, v |-> p.v]

get_field_value(self, st, search_radar, field) ==
    LET h1 == Append(st.h, <<>>)
    IN gfv_loop(self, [st EXCEPT !.h = h1], search_radar, 1, field, Len(h1))

\* the mutant that joins name and sub-field name without the delimiter
NestingPrefixNoDelimiter(self, name) == name

\* f'{name}{self.nesting_delimiter}'
NestingPrefix(self, name) == name \o self.nesting_delimiter.s

\* names of update_result_for_field: the env_names, prefixed unless the
\* field has an explicit env
FieldNames(field, prefix) ==
    IF ~has_env(field)
    THEN [i \in 1..Len(field.env_names) |-> prefix \o field.env_names[i]]
    ELSE field.env_names

\* result.setdefault(alias, {}) for a value result: [h, v, err]
SetDefaultDict(h, result, alias) ==
    IF ~IsDict(result)
    THEN [h |-> h, v |-> None, err |-> Error("AttributeError", <<>>)]
    ELSE IF DictHas(h[result.r], alias)
    THEN [h |-> h, v |-> DictAt(h[result.r], alias), err |-> NoError]
    ELSE LET new == Len(h) + 1
         IN [h |-> Append([h EXCEPT ![result.r] = DictSet(@, alias, Ref(new))], <<>>),
             v |-> Ref(new), err |-> NoError]

\* line 97: .update(response) on what result.setdefault(alias, {}) gave
UpdateDefault(h, sd, response) ==
    IF sd.err # NoError THEN [h |-> h, err |-> sd.err]
    ELSE IF ~IsDict(sd.v) THEN [h |-> sd.h, err |-> Error("AttributeError", <<>>)]
    ELSE [h |-> [sd.h EXCEPT ![sd.v.r] = DictUpdate(@, sd.h[response.r])],
          err |-> NoError]

\* lines 95-99 of update_result_for_field: [h, err]
StoreResponse(h, result, alias, response) ==
    IF response = Empty THEN [h |-> h, err |-> NoError]
    ELSE IF IsDict(response)
    THEN UpdateDefault(h, SetDefaultDict(h, result, alias), response)
    ELSE IF ~IsDict(result) THEN [h |-> h, err |-> Error("TypeError", <<>>)]
    ELSE [h |-> [h EXCEPT ![result.r] = DictSet(@, alias, response)], err |-> NoError]

\* the state after the response is stored: w is [h, err]
Stored(w, km) == [h |-> w.h, km |-> km, err |-> w.err]

\* update_result_for_field(field, prefix, result), and its loop over the
\* names and the fields of a nested model (lines 106-110), from the ni-th
\* name and the fi-th sub-field on.  All return st.
RECURSIVE update_result_for_field(_, _, _, _, _)
RECURSIVE urff_response(_, _, _, _, _)
RECURSIVE urff_stored(_, _, _, _, _)
RECURSIVE nested_loop(_, _, _, _, _, _, _)
RECURSIVE nested_field(_, _, _, _, _, _, _, _)
update_result_for_field(self, st, field, prefix, result) ==
    urff_response(self, field, FieldNames(field, prefix), result,
                  get_field_value(self, st, FieldNames(field, prefix), field))

\* lines 95-99, g being what get_field_value gave: [h, km, err, v]
urff_response(self, field, names, result, g) ==
    IF g.err # NoError THEN [h |-> g.h, km |-> g.km, err |-> g.err]
    ELSE urff_stored(self, field, names, result,
                     Stored(StoreResponse(g.h, result, field.alias, g.v), g.km))

\* line 106, st being the state after the response is stored
urff_stored(self, field, names, result, st) ==
    IF st.err # NoError THEN st
    ELSE IF field.model /\ self.nesting_delimiter.set /\ self.nesting_delimiter.s # <<>>
    THEN nested_loop(self, st, field, names, 1, 1, result)
    ELSE st

nested_loop(self, st, field, names, ni, fi, result) ==
    IF st.err # NoError \/ ni > Len(names) THEN st
    ELSE IF fi > Len(field.model_fields)
    THEN nested_loop(self, st, field, names, ni + 1, 1, result)
    ELSE nested_field(self, st, field, names, ni, fi, result,
                      SetDefaultDict(st.h, result, field.alias))

\* line 110, sd being what result.setdefault(field.alias, {}) gave
nested_field(self, st, field, names, ni, fi, result, sd) ==
    IF sd.err # NoError THEN [st EXCEPT !.err = sd.err]
    ELSE nested_loop(self,
            update_result_for_field(self, [st EXCEPT !.h = sd.h],
                                    field.model_fields[fi],
                                    NestingPrefix(self, names[ni]), sd.v),
            field, names, ni, fi + 1, result)

\* the loop of __call__ from the i-th field on
RECURSIVE call_loop(_, _, _, _, _)
call_loop(self, st, flds, i, result) ==
    IF st.err # NoError \/ i > Len(flds) THEN st
    ELSE call_loop(self, update_result_for_field(self, st, flds[i], <<>>, result),
                   flds, i + 1, result)

\* __call__(fields): [st, result]; result is returned unless st.err is set
call(self, st, flds) ==
    LET h1 == Append(st.h, <<>>)
    IN [st |-> call_loop(self, [st EXCEPT !.h = h1], flds, 1, Ref(Len(h1))),
        result |-> Ref(Len(h1))]

(***************************************************************************)
(* The state machine of one SourceMapper.                                  *)
(***************************************************************************)
Self == [source |-> source, case_sensitive |-> case_sensitive,
         nesting_delimiter |-> nesting_delimiter]

State == [h |-> heap, km |-> keymap_cache, err |-> NoError]

NoLookup == [names |-> <<>>, field |-> fVal, err |-> NoError, v |-> None, value |-> None,
             done |-> FALSE]

NotCalled == [called |-> FALSE, err |-> NoError, value |-> <<>>]

EnvIdle ==
    /\ environ = <<>>
    /\ dotenv_files = <<>>
    /\ dotenv_installed = TRUE
    /\ env_file_paths = [t |-> "none", s |-> "", l |-> <<>>]
    /\ env_result = NotCalled

\* SourceMapper(source, get_field_info, case_sensitive, nesting_delimiter)
InitMapper ==
    /\ \E items \in Sources :
          LET a == Alloc(<<>>, Lit(items))
          IN /\ heap = a.h
             /\ source = a.v.r
             /\ source0 = Deep(a.h, a.v)
    /\ case_sensitive \in BOOLEAN
    /\ nesting_delimiter \in {NoDelimiter, Delimiter(Delim)}
    /\ fields \in FieldLists
    /\ keymap_cache = NoKeymap
    /\ calls = <<>>
    /\ lookup = NoLookup

Init == InitMapper /\ EnvIdle

\* a read of the keymap property
Keymap ==
    /\ keymap_cache' = keymap(Self, State).km
    /\ keymap_cache' # keymap_cache
    /\ UNCHANGED <<heap, source, source0, case_sensitive, nesting_delimiter, fields,
                   calls, lookup>>
    /\ UNCHANGED env_vars

\* mapper(fields)
Call ==
    /\ Len(calls) < MaxCalls
    /\ LET c == call(Self, State, fields)
           returned == c.st.err = NoError
       IN /\ heap' = c.st.h
          /\ keymap_cache' = c.st.km
          /\ calls' = Append(calls,
                [err |-> c.st.err,
                 result |-> IF returned THEN c.result ELSE None,
                 value |-> IF returned THEN Deep(c.st.h, c.result) ELSE None])
    /\ UNCHANGED <<source, source0, case_sensitive, nesting_delimiter, fields,
                   lookup>>
    /\ UNCHANGED env_vars

Next == Keymap \/ Call

Spec == Init /\ [][Next]_vars

(***************************************************************************)
(* Direct calls of get_field_value(search_radar, field) on a SourceMapper. *)
(***************************************************************************)
LookupKeys == {kA, ka, kb}

LookupNames ==
    {<<x>> : x \in LookupKeys}
    \cup {p \in LookupKeys \X LookupKeys : p[1] # p[2]}

InitLookup ==
    /\ InitMapper
    /\ Len(fields) = 1
    /\ nesting_delimiter = NoDelimiter
    /\ EnvIdle

\* mapper.get_field_value(names, field); the caller keeps the value only
GetFieldValue ==
    /\ \E names \in LookupNames, i \in 1..Len(fields) :
          LET g == get_field_value(Self, State, names, fields[i])
          IN /\ keymap_cache' = g.km
             /\ lookup' = [names |-> names, field |-> fields[i], err |-> g.err,
                           v |-> g.v, value |-> Deep(g.h, g.v), done |-> TRUE]
    /\ UNCHANGED <<heap, source, source0, case_sensitive, nesting_delimiter, fields, calls>>
    /\ UNCHANGED env_vars

NextLookup == Keymap \/ GetFieldValue

SpecLookup == InitLookup /\ [][NextLookup]_vars

(***************************************************************************)
(* source_providers: dotenv_source_provider and env_source_provider.       *)
(* A dotenv file is given by what dotenv_values parses out of it; a path   *)
(* that is no file is NotAFile.                                            *)
(***************************************************************************)
NotAFile == [file |-> FALSE, vars |-> <<>>]
File(items) == [file |-> TRUE, vars |-> items]

EnvKeys == {<<"K">>, <<"L">>}
Paths == {"p", "q"}

NoPaths == [t |-> "none", s |-> "", l |-> <<>>]
OnePath(path) == [t |-> "str", s |-> path, l |-> <<>>]
PathList(l) == [t |-> "list", s |-> "", l |-> l]

\* truth value of the env_file_paths argument
PathsTruthy(paths) ==
    \/ paths.t = "str" /\ paths.s # ""
    \/ paths.t = "list" /\ paths.l # <<>>

\* the loop of dotenv_source_provider over the paths from the i-th on
RECURSIVE dotenv_loop(_, _, _, _)
dotenv_loop(files, paths, i, dotenv_vars) ==
    IF i > Len(paths) THEN dotenv_vars
    ELSE dotenv_loop(files, paths, i + 1,
                     IF ~files[paths[i]].file THEN dotenv_vars
                     ELSE DictUpdate(dotenv_vars, files[paths[i]].vars))

\* dotenv_source_provider(env_file_paths, env_file_encoding): [err, value]
dotenv_source_provider(installed, files, paths) ==
    IF ~installed THEN [err |-> Error("ImportError", <<>>), value |-> <<>>]
    ELSE IF paths.t = "none" THEN [err |-> NoError, value |-> <<>>]
    ELSE [err |-> NoError,
          value |-> dotenv_loop(files, IF paths.t = "str" THEN <<paths.s>> ELSE paths.l,
                                1, <<>>)]

\* the mutant in which the dotenv values override the process environment
MergeEnvDotenvWins(env, process_env) == DictUpdate(DictUpdate(<<>>, process_env), env)

\* {**env_vars, **os.environ}
MergeEnv(env, process_env) == DictUpdate(DictUpdate(<<>>, env), process_env)

\* env_source_provider(env_file_paths, env_file_encoding): [err, value]
env_source_provider(installed, files, process_env, paths) ==
    LET d == IF PathsTruthy(paths) THEN dotenv_source_provider(installed, files, paths)
             ELSE [err |-> NoError, value |-> <<>>]
    IN IF d.err # NoError THEN d
       ELSE [err |-> NoError, value |-> MergeEnv(DictUpdate(<<>>, d.value), process_env)]

MapperIdle ==
    /\ heap = <<<<>>>>
    /\ source = 1
    /\ source0 = Deep(heap, Ref(1))
    /\ case_sensitive = FALSE
    /\ nesting_delimiter = NoDelimiter
    /\ fields = <<>>
    /\ keymap_cache = NoKeymap
    /\ calls = <<>>
    /\ lookup = NoLookup

\* what a dotenv file may hold
FileContents ==
    { NotAFile,
      File(<<Item(<<"K">>, Str("x"))>>),
      File(<<Item(<<"K">>, Str("y")), Item(<<"L">>, Str("y"))>>) }

\* the sequences of at most n paths
RECURSIVE PathSeqs(_)
PathSeqs(n) ==
    IF n = 0 THEN {<<>>}
    ELSE LET shorter == PathSeqs(n - 1)
         IN shorter \cup {Append(l, path) : l \in {q \in shorter : Len(q) = n - 1},
                                            path \in Paths}

InitEnv ==
    /\ MapperIdle
    /\ environ \in {<<>>, <<Item(<<"K">>, Str("e"))>>, <<Item(<<"L">>, Str("e"))>>,
                     <<Item(<<"K">>, Str("e")), Item(<<"L">>, Str("e"))>>}
    /\ dotenv_files \in [Paths -> FileContents]
    /\ dotenv_installed \in BOOLEAN
    /\ env_file_paths \in {NoPaths} \cup {OnePath(path) : path \in Paths}
                             \cup {PathList(l) : l \in PathSeqs(MaxFiles)}
    /\ env_result = NotCalled

EnvSourceProvider ==
    /\ ~env_result.called
    /\ LET e == env_source_provider(dotenv_installed, dotenv_files, environ, env_file_paths)
       IN env_result' = [called |-> TRUE, err |-> e.err, value |-> e.value]
    /\ UNCHANGED <<environ, dotenv_files, dotenv_installed, env_file_paths>>
    /\ UNCHANGED mapper_vars

NextEnv == EnvSourceProvider

SpecEnv == InitEnv /\ [][NextEnv]_vars

(***************************************************************************)
(* What the properties say about the source, stated on the source itself.  *)
(***************************************************************************)
SrcItems == heap[source]

Minimum(S) == CHOOSE x \in S : \A y \in S : x <= y
Maximum(S) == CHOOSE x \in S : \A y \in S : x >= y

\* the positions of the source keys whose normalized form is the name
PositionsOf(name) ==
    {i \in 1..Len(SrcItems) : NormalizeKey(SrcItems[i].k, case_sensitive) = name}

\* the value of the first source key whose normalized form is the name;
\* None when there is no such key
Indexed(name) ==
    IF PositionsOf(name) = {} THEN None ELSE SrcItems[Minimum(PositionsOf(name))].v

Returned(c) == c.err = NoError

DelimiterOn == nesting_delimiter.set /\ nesting_delimiter.s # <<>>

(***************************************************************************)
(* C4: the Key Index has exactly one entry per normalized source key, and  *)
(* the entry is the first source key, in the source's iteration order,     *)
(* that normalizes to it; later colliding keys never replace it.           *)
(***************************************************************************)
C4_KeyIndexFirstWins ==
    keymap_cache.cached =>
        /\ DOMAIN keymap_cache.map =
              {NormalizeKey(SrcItems[i].k, case_sensitive) : i \in 1..Len(SrcItems)}
        /\ \A n \in DOMAIN keymap_cache.map :
              keymap_cache.map[n] = SrcItems[Minimum(PositionsOf(n))].k

\* the index is built over a source two keys of which collide
C4_Witness ==
    /\ keymap_cache.cached
    /\ \E n \in DOMAIN keymap_cache.map :
          /\ Cardinality(PositionsOf(n)) > 1
          /\ keymap_cache.map[n] # SrcItems[Maximum(PositionsOf(n))].k

(***************************************************************************)
(* C8: resolution never mutates the source: the source and every mapping   *)
(* reachable from it are what they were at construction.                   *)
(***************************************************************************)
C8_SourceNeverMutated == Deep(heap, Ref(source)) = source0

(***************************************************************************)
(* C9: two calls on the same resolver end the same way with equal Result   *)
(* Mappings, and a Result Mapping that was returned is not changed by a    *)
(* later call.                                                             *)
(***************************************************************************)
C9_Idempotent ==
    \A i, j \in 1..Len(calls) :
        i < j =>
            /\ calls[i].err = calls[j].err
            /\ calls[i].value = calls[j].value
            /\ Returned(calls[i]) => Deep(heap, calls[i].result) = calls[i].value

\* a second call has returned a Result Mapping with an entry, resolved
\* through the Key Index the first call built
C9_Witness ==
    /\ Len(calls) = 2
    /\ Returned(calls[1]) /\ Returned(calls[2])
    /\ keymap_cache.cached
    /\ DOMAIN calls[2].value.d # {}

(***************************************************************************)
(* C1: after a call returns, every key of the Result Mapping is the alias  *)
(* of a field for which a candidate name resolved to a non-null source     *)
(* value; a field with no match anywhere in the source is absent.  A field *)
(* counts as matched here as soon as one of its names, or a delimiter-     *)
(* joined name of one of its sub-fields, is a source key in any letter     *)
(* case with a non-null value.                                             *)
(***************************************************************************)
NameInSource(name) ==
    \E i \in 1..Len(SrcItems) :
        Lower(SrcItems[i].k) = Lower(name) /\ SrcItems[i].v # None

RECURSIVE MatchedAnywhere(_, _)
MatchedAnywhere(field, prefix) ==
    LET names == FieldNames(field, prefix)
    IN \/ \E i \in 1..Len(names) : NameInSource(names[i])
       \/ /\ field.model
          /\ DelimiterOn
          /\ \E i \in 1..Len(names), j \in 1..Len(field.model_fields) :
                MatchedAnywhere(field.model_fields[j], names[i] \o nesting_delimiter.s)

C1_OnlyMatchedFieldsPresent ==
    \A n \in 1..Len(calls) :
        Returned(calls[n]) =>
            \A key \in DOMAIN calls[n].value.d :
                \E i \in 1..Len(fields) :
                    fields[i].alias = key /\ MatchedAnywhere(fields[i], <<>>)

(***************************************************************************)
(* What one source value contributes to a field, stated from the value:    *)
(* nothing (null), a mapping, a scalar, or a fatal decoding failure.       *)
(***************************************************************************)
RECURSIVE DeepLit(_)
DeepLit(lit) ==
    IF lit.t = "lit"
    THEN [t |-> "dict",
          d |-> [key \in {lit.items[i].k : i \in 1..Len(lit.items)} |->
                    DeepLit(lit.items[Maximum({i \in 1..Len(lit.items) :
                                                  lit.items[i].k = key})].v)]]
    ELSE lit

\* the field's values are decoded: it is complex, or a union with a complex branch
Decodes(field) ==
    field.complex \/ (field.union /\ \E i \in 1..Len(field.sub_complex) : field.sub_complex[i])

Contribution(raw, field) ==
    IF raw = None THEN [kind |-> "absent", value |-> Empty]
    ELSE IF IsDict(raw) THEN [kind |-> "mapping", value |-> Deep(heap, raw)]
    ELSE IF ~Decodes(field) THEN [kind |-> "scalar", value |-> raw]
    ELSE LET decoded == json_loads(raw.s)
         IN IF ~decoded.ok
            THEN IF field.complex THEN [kind |-> "fatal", value |-> raw]
                 ELSE [kind |-> "scalar", value |-> raw]
            ELSE IF decoded.lit.t = "lit"
            THEN [kind |-> "mapping", value |-> DeepLit(decoded.lit)]
            ELSE [kind |-> "scalar", value |-> decoded.lit]

\* what the name contributes through the Key Index, the name taken verbatim
Found(name, field) == Contribution(Indexed(name), field)

LookupOutcome == [err |-> lookup.err, value |-> lookup.value]

(***************************************************************************)
(* C2 as claimed: a candidate name is normalized like the Key Index before *)
(* the lookup, so in case-insensitive mode a name finds the source key     *)
(* whose lower-cased form equals the lower-cased name, whatever the case   *)
(* of the name; in case-sensitive mode only the equal key.                 *)
(***************************************************************************)
SingleName == lookup.done /\ Len(lookup.names) = 1 /\ ~Decodes(lookup.field)

\* what a lookup of a field that is not decoded returns for a source value
Plain(raw) ==
    IF raw = None \/ (IsDict(raw) /\ heap[raw.r] = <<>>) THEN Empty ELSE Deep(heap, raw)

ScalarsOnly ==
    \A i \in 1..Len(SrcItems) :
        (\E j \in 1..Len(lookup.names) : Lower(SrcItems[i].k) = Lower(lookup.names[j]))
            => Contribution(SrcItems[i].v, lookup.field).kind # "mapping"

FoundPositions(names, field) ==
    {j \in 1..Len(names) : Found(names[j], field).kind # "absent"}

\* the outcome is decided by the earliest candidate found, alone
FirstFoundWins ==
    LET names == lookup.names
        found == FoundPositions(names, lookup.field)
        first == Found(names[Minimum(found)], lookup.field)
    IN IF found = {} THEN LookupOutcome = [err |-> NoError, value |-> Empty]
       ELSE IF first.kind = "fatal"
       THEN LookupOutcome = [err |-> Error("SettingsError", names[Minimum(found)]),
                             value |-> None]
       ELSE LookupOutcome = [err |-> NoError, value |-> first.value]

Orders(n) ==
    {p \in [1..n -> 1..n] : \A i, j \in 1..n : i # j => p[i] # p[j]}

\* the outcome of the same lookup on the source with its items in order p
OutcomeInOrder(p) ==
    LET h2 == Append(heap, [i \in 1..Len(SrcItems) |-> SrcItems[p[i]]])
        g == get_field_value([Self EXCEPT !.source = Len(h2)],
                             [h |-> h2, km |-> NoKeymap, err |-> NoError],
                             lookup.names, lookup.field)
    IN [err |-> g.err, value |-> Deep(g.h, g.v)]

SourceOrderIrrelevant ==
    \A p \in Orders(Len(SrcItems)) : OutcomeInOrder(p) = LookupOutcome

C3_FirstCandidateWinsWhateverTheSourceOrder ==
    (lookup.done /\ ScalarsOnly) => (FirstFoundWins /\ SourceOrderIrrelevant)

(***************************************************************************)
(* C3 amended: for a field whose found values are scalars the resolved     *)
(* value is the (decoded, for a complex field) source value of the         *)
(* earliest candidate name that the Key Index finds with a non-null value, *)
(* later candidates are not consulted, and the order of the keys in the    *)
(* source has no influence unless two source keys normalize to the same    *)
(* Key Index entry.                                                        *)
(***************************************************************************)
NoCollision ==
    \A i, j \in 1..Len(SrcItems) :
        i # j => NormalizeKey(SrcItems[i].k, case_sensitive)
                    # NormalizeKey(SrcItems[j].k, case_sensitive)

C3_FirstCandidateWins ==
    (lookup.done /\ ScalarsOnly) => (FirstFoundWins /\ (NoCollision => SourceOrderIrrelevant))

\* both candidates are in the source, the second one first, and the value
\* of the first candidate is the result
C3_Witness ==
    /\ lookup.done /\ ScalarsOnly /\ NoCollision
    /\ Len(lookup.names) = 2
    /\ FoundPositions(lookup.names, lookup.field) = {1, 2}
    /\ Minimum(PositionsOf(lookup.names[2])) < Minimum(PositionsOf(lookup.names[1]))
    /\ Indexed(lookup.names[1]) # Indexed(lookup.names[2])
    /\ lookup.value = Indexed(lookup.names[1])

(***************************************************************************)
(* C5: for a complex field no candidate of which yields a scalar,          *)
(* get_field_value returns the merge of the mappings found under all of    *)
(* its candidate names: the keys are the union of the fragments' keys, a   *)
(* key of several fragments has the value of the latest candidate, also    *)
(* when the first candidate is missing; an empty merge is "no value".      *)
(***************************************************************************)
MappingsOnly ==
    /\ lookup.done
    /\ Decodes(lookup.field)
    /\ \A j \in 1..Len(lookup.names) :
          Found(lookup.names[j], lookup.field).kind \in {"absent", "mapping"}

Fragments ==
    {j \in 1..Len(lookup.names) : Found(lookup.names[j], lookup.field).kind = "mapping"}

Fragment(j) == Found(lookup.names[j], lookup.field).value.d

MergedKeys == UNION {DOMAIN Fragment(j) : j \in Fragments}

Merged ==
    [key \in MergedKeys |->
        Fragment(Maximum({j \in Fragments : key \in DOMAIN Fragment(j)}))[key]]

C5_FragmentsMerged ==
    MappingsOnly =>
        LookupOutcome =
            [err |-> NoError,
             value |-> IF MergedKeys = {} THEN Empty ELSE [t |-> "dict", d |-> Merged]]

\* two candidates have given mappings that disagree on a key
C5_Witness ==
    /\ MappingsOnly
    /\ Fragments = {1, 2}
    /\ \E key \in DOMAIN Fragment(1) \cap DOMAIN Fragment(2) :
          /\ Fragment(1)[key] # Fragment(2)[key]
          /\ lookup.value.d[key] = Fragment(2)[key]
    /\ DOMAIN lookup.value.d # DOMAIN Fragment(1)

(***************************************************************************)
(* C6: when a found, non-null, non-mapping value of a complex field fails  *)
(* decoding, the field's classification alone decides: complex and not a   *)
(* union, the whole call aborts with a configuration error naming the      *)
(* candidate and no Result Mapping is returned; a union with a complex     *)
(* branch, no error is raised and the raw value is the field's entry.      *)
(***************************************************************************)
DecodeFails(raw, field) ==
    Decodes(field) /\ raw.t = "str" /\ ~json_loads(raw.s).ok

\* the candidates whose value fails decoding when get_field_value comes to them
FailingCandidates(names, field) ==
    {j \in 1..Len(names) :
        /\ DecodeFails(Indexed(names[j]), field)
        /\ \A k \in 1..(j - 1) : Found(names[k], field).kind \in {"absent", "mapping"}}

C6_DecodeFailure ==
    \A i \in 1..Len(fields) :
        LET field == fields[i]
            names == FieldNames(field, <<>>)
            failing == FailingCandidates(names, field)
            name == names[Minimum(failing)]
        IN failing # {} =>
              IF field.complex
              THEN (\A k \in 1..(i - 1) : ~fields[k].complex) =>
                      \A n \in 1..Len(calls) :
                          /\ calls[n].err = Error("SettingsError", name)
                          /\ calls[n].result = None
                          /\ calls[n].value = None
              ELSE LET g == get_field_value(Self, State, names, field)
                   IN /\ g.err = NoError
                      /\ g.v = Indexed(name)
                      /\ \A n \in 1..Len(calls) :
                            Returned(calls[n]) =>
                                /\ field.alias \in DOMAIN calls[n].value.d
                                /\ calls[n].value.d[field.alias] = Indexed(name)

\* a call has aborted on the second field, after the first one was resolved
C6_Witness ==
    /\ Len(fields) = 2
    /\ Len(calls) > 0
    /\ FoundPositions(FieldNames(fields[1], <<>>), fields[1]) # {}
    /\ FailingCandidates(FieldNames(fields[2], <<>>), fields[2]) # {}
    /\ calls[1].err.type = "SettingsError"
    /\ calls[1].result = None

(***************************************************************************)
(* C7: with a nesting delimiter D, each sub-field without an explicit      *)
(* lookup name of a nested-model field is looked up, for each candidate    *)
(* name N of the parent, under N + D + (sub-field candidate name), at      *)
(* every depth, and a value found there is written under the sub-field's   *)
(* alias inside result[parent alias], also when nothing was found under    *)
(* the parent's own names.  Stated for the calls that return.              *)
(***************************************************************************)
RECURSIVE Flatten(_)
Flatten(seqs) == IF seqs = <<>> THEN <<>> ELSE Head(seqs) \o Flatten(Tail(seqs))

\* the prefixes of the sub-fields of a model field resolved under prefixes
SubPrefixes(field, prefixes) ==
    Flatten([p \in 1..Len(prefixes) |->
                [n \in 1..Len(FieldNames(field, prefixes[p])) |->
                    FieldNames(field, prefixes[p])[n] \o nesting_delimiter.s]])

\* the value found for a field that is not decoded under one prefix
LeafValue(field, prefix) ==
    LET names == FieldNames(field, prefix)
        found == FoundPositions(names, field)
    IN IF found = {} THEN Empty ELSE Plain(Indexed(names[Minimum(found)]))

RECURSIVE Written(_, _, _)
Written(mapping, field, prefixes) ==
    IF field.model
    THEN /\ field.alias \in DOMAIN mapping.d
         /\ mapping.d[field.alias].t = "dict"
         /\ \A s \in 1..Len(field.model_fields) :
               ~has_env(field.model_fields[s]) =>
                   Written(mapping.d[field.alias], field.model_fields[s],
                           SubPrefixes(field, prefixes))
    ELSE IF Decodes(field) THEN TRUE
    ELSE LET hits == {p \in 1..Len(prefixes) : LeafValue(field, prefixes[p]) # Empty}
         IN hits # {} =>
               /\ field.alias \in DOMAIN mapping.d
               /\ mapping.d[field.alias] = LeafValue(field, prefixes[Maximum(hits)])

PathsGiven ==
    IF env_file_paths.t = "str" THEN <<env_file_paths.s>> ELSE env_file_paths.l

\* the positions, in the paths given, of the dotenv files that define the key
DotenvDefining(key) ==
    {j \in 1..Len(PathsGiven) :
        dotenv_files[PathsGiven[j]].file /\ DictHas(dotenv_files[PathsGiven[j]].vars, key)}

DotenvValue(key) ==
    DictAt(dotenv_files[PathsGiven[Maximum(DotenvDefining(key))]].vars, key)

EnvHolds(key, value) ==
    DictHas(env_result.value, key) /\ DictAt(env_result.value, key) = value

EnvReturned == env_result.called /\ env_result.err = NoError

NoErrorFromMissingFiles == (env_result.called /\ dotenv_installed) => env_result.err = NoError

C10_DotenvOverridesEnviron ==
    /\ NoErrorFromMissingFiles
    /\ EnvReturned =>
          \A key \in EnvKeys :
              IF DotenvDefining(key) # {} THEN EnvHolds(key, DotenvValue(key))
              ELSE IF DictHas(environ, key) THEN EnvHolds(key, DictAt(environ, key))
              ELSE ~DictHas(env_result.value, key)

(***************************************************************************)
(* C10 amended: the mapping of env_source_provider is the values loaded    *)
(* from the dotenv files overlaid with the process environment: a key of   *)
(* both has the value of the process environment, a key of several dotenv  *)
(* files only that of the later file, and a path that is no file is        *)
(* skipped without error.                                                  *)
(***************************************************************************)
C10_EnvironOverridesDotenv ==
    /\ NoErrorFromMissingFiles
    /\ EnvReturned =>
          \A key \in EnvKeys :
              IF DictHas(environ, key) THEN EnvHolds(key, DictAt(environ, key))
              ELSE IF DotenvDefining(key) # {} THEN EnvHolds(key, DotenvValue(key))
              ELSE ~DictHas(env_result.value, key)

\* one key is in the process environment and in a dotenv file, another one
\* in two dotenv files only
C10_Witness ==
    /\ EnvReturned
    /\ \E key \in EnvKeys :
          /\ DictHas(environ, key)
          /\ DotenvDefining(key) # {}
          /\ DotenvValue(key) # DictAt(environ, key)
          /\ EnvHolds(key, DictAt(environ, key))
    /\ \E key \in EnvKeys :
          /\ ~DictHas(environ, key)
          /\ Cardinality(DotenvDefining(key)) = 2
          /\ EnvHolds(key, DotenvValue(key))

====
